---- MODULE Spec2Model ----
(***************************************************************************)
(* A model of updateMods.py: the version downstep, the Modrinth release    *)
(* selection, the mod installer (download_modrinth_mod), the fallback      *)
(* ladder that drives it, and the config/mod loops with the final tally.   *)
(*                                                                         *)
(* Strings that the code takes apart are sequences of one-character        *)
(* strings; a version string is the sequence of its "."-separated          *)
(* components (what version.split(".") yields), so "1.20.2" is             *)
(* << <<"1">>, <<"2","0">>, <<"2">> >>.                                    *)
(***************************************************************************)
EXTENDS Integers, Sequences, FiniteSets, TLC

(***************************************************************************)
(* Bounds of the model.                                                    *)
(***************************************************************************)
\* longest patch component (in characters) of the versions fed to downstep_version
MaxDigits == 2
\* most components of the versions fed to downstep_version
MaxComponents == 4

(***************************************************************************)
(* Characters, str.isnumeric, int() and str().                             *)
(***************************************************************************)
DigitChars == <<"0", "1", "2", "3", "4", "5", "6", "7", "8", "9">>

Digits == {DigitChars[i] : i \in 1..10}

\* the value of a decimal digit character
DigitVal(ch) == (CHOOSE i \in 1..10 : DigitChars[i] = ch) - 1

\* str.isnumeric() on the component: every character a digit, and at least one
isnumeric(s) == Len(s) > 0 /\ \A i \in 1..Len(s) : s[i] \in Digits

\* int(s) for a numeric component (leading zeros are accepted by int())
RECURSIVE int(_)
int(s) ==
    IF Len(s) = 0 THEN 0
    ELSE 10 * int(SubSeq(s, 1, Len(s) - 1)) + DigitVal(s[Len(s)])

RECURSIVE NatToStr(_)
NatToStr(n) ==
    IF n < 10 THEN <<DigitChars[n + 1]>>
    ELSE NatToStr(n \div 10) \o <<DigitChars[(n % 10) + 1]>>

\* str(n) for an integer: a minus sign in front of a negative number
str(n) == IF n < 0 THEN <<"-">> \o NatToStr(-n) ELSE NatToStr(n)

(***************************************************************************)
(* downstep_version.  The result is what the call ends with: a returned    *)
(* string, the returned None (no case of the match applies and the         *)
(* function falls off its end), a raised ValueError with its second        *)
(* argument, or the AttributeError of None.split.                          *)
(***************************************************************************)
\* Python's None as a version: split never yields zero components
None == << >>

\* the component "x" of the f"{version}.x" label carried by the ValueError
LabelX == <<"x">>

Returned(v) == [kind |-> "return", value |-> v]

ReturnedNone == [kind |-> "None", value |-> None]

RaisedValueError(arg1) == [kind |-> "ValueError", value |-> arg1]

RaisedAttributeError == [kind |-> "AttributeError", value |-> None]

\* variant with a seeded fault: the patch is decremented by two
downstep_version_off_by_one(version) ==
    IF version = None THEN RaisedAttributeError
    ELSE IF ~ \A i \in 1..Len(version) : isnumeric(version[i])
    THEN RaisedValueError(version)
    ELSE IF Len(version) = 2 THEN RaisedValueError(version \o <<LabelX>>)
    ELSE IF Len(version) = 3 THEN
        IF version[3] = <<"0">>
        THEN RaisedValueError(<<version[1], version[2], LabelX>>)
        ELSE LET new_minor == int(version[3]) - 2
             IN  IF new_minor = 0
                 THEN Returned(<<version[1], version[2]>>)
                 ELSE Returned(<<version[1], version[2], str(new_minor)>>)
    ELSE ReturnedNone

downstep_version(version) ==
    IF version = None THEN RaisedAttributeError
    ELSE IF ~ \A i \in 1..Len(version) : isnumeric(version[i])
    THEN RaisedValueError(version)
    ELSE IF Len(version) = 2 THEN RaisedValueError(version \o <<LabelX>>)
    ELSE IF Len(version) = 3 THEN
        IF version[3] = <<"0">>
        THEN RaisedValueError(<<version[1], version[2], LabelX>>)
        ELSE LET new_minor == int(version[3]) - 1
             IN  IF new_minor = 0
                 THEN Returned(<<version[1], version[2]>>)
                 ELSE Returned(<<version[1], version[2], str(new_minor)>>)
    ELSE ReturnedNone

(***************************************************************************)
(* File contents and the hash verifier (matches_hashes).  A content is a   *)
(* small number; 0 is the empty file.  The digests are injective in the    *)
(* content, the size is not: Corrupt has the size of a good jar and the    *)
(* digests of none.  The identifier 0 is Python's falsy "not given".       *)
(***************************************************************************)
Empty == 0

Corrupt == 4

Contents == {0, 1, 2, 3, 4}

getsize(c) == IF c = Empty THEN 0 ELSE IF c \in {2, Corrupt} THEN 2 ELSE 1

sha1_hexdigest(c) == 100 + c

sha512_hexdigest(c) == 200 + c

\* variant with a seeded fault: the SHA-512 digest is never compared
matches_hashes_no_sha512(c, sha1, sha512, size) ==
    IF size # 0 /\ getsize(c) # size THEN FALSE
    ELSE IF sha1 # 0 /\ sha1 # sha1_hexdigest(c) THEN FALSE
    ELSE TRUE

\* matches_hashes on a file holding content c; every caller modelled here
\* passes at least one identifier, so the ValueError of line 42 is not raised
matches_hashes(c, sha1, sha512, size) ==
    IF size # 0 /\ getsize(c) # size THEN FALSE
    ELSE IF sha1 # 0 /\ sha1 # sha1_hexdigest(c) THEN FALSE
    ELSE IF sha512 # 0 THEN sha512 = sha512_hexdigest(c)
    ELSE TRUE

(***************************************************************************)
(* The hosting API's answer (mod_json): a sequence of builds, each with    *)
(* its game versions, loaders, version type, publish time and files.       *)
(***************************************************************************)
\* a file of a build whose bytes on the server are content c
File(primary, filename, c) ==
    [primary |-> primary, filename |-> filename, size |-> getsize(c),
     sha1 |-> sha1_hexdigest(c), sha512 |-> sha512_hexdigest(c)]

Build(game_versions, loaders, version_type, date_published, files) ==
    [game_versions |-> game_versions, loaders |-> loaders,
     version_type |-> version_type, date_published |-> date_published,
     files |-> files]

\* primary_file before a build is selected
NoFile == [primary |-> FALSE, filename |-> << >>, size |-> 0, sha1 |-> 0, sha512 |-> 0]

IsPrimary(x) == x.primary = TRUE

\* variant with a seeded fault: the first file is taken whatever the primary flags say
primary_file_of_first(mod_version) == mod_version.files[1]

\* lines 201-205 and 228-232: the file flagged primary, else the first file
primary_file_of(mod_version) ==
    LET primary_file_list == SelectSeq(mod_version.files, IsPrimary)
    IN  IF primary_file_list # << >> THEN primary_file_list[1]
        ELSE mod_version.files[1]

\* lines 198-206: the primary file name of every build the API returned
filenames_of(mod_json) ==
    {primary_file_of(mod_json[i]).filename : i \in 1..Len(mod_json)}

(***************************************************************************)
(* The release selection of download_modrinth_mod (lines 211-225).  The    *)
(* result is the selected build, or the ValueError with its second         *)
(* argument any_available.                                                 *)
(***************************************************************************)
Found(b) == [kind |-> "found", any_available |-> TRUE, build |-> b]

NoBuild == Build({}, {}, "", 0, << >>)

NotFound(any_available) ==
    [kind |-> "ValueError", any_available |-> any_available, build |-> NoBuild]

\* max() of the publish times of a non-empty list of builds
MaxDate(builds) ==
    CHOOSE t \in {builds[i].date_published : i \in 1..Len(builds)} :
        \A i \in 1..Len(builds) : builds[i].date_published <= t

\* variant with a seeded fault: the availability flag is computed after the release filter
select_build_flag_after_filter(mod_json, version, loader, enforce_release) ==
    LET Matches(x) == version \in x.game_versions /\ loader \in x.loaders
        IsRelease(x) == x.version_type = "release"
        matching == SelectSeq(mod_json, Matches)
        filtered == IF enforce_release THEN SelectSeq(matching, IsRelease)
                    ELSE matching
        any_available == filtered # << >>
    IN  IF filtered = << >> THEN NotFound(any_available)
        ELSE LET latest_release_time == MaxDate(filtered)
                 IsLatest(x) == x.date_published = latest_release_time
             IN  Found(SelectSeq(filtered, IsLatest)[1])

\* variant with a seeded fault: the release filter is applied in both stability modes
select_build_always_release(mod_json, version, loader, enforce_release) ==
    LET Matches(x) == version \in x.game_versions /\ loader \in x.loaders
        IsRelease(x) == x.version_type = "release"
        matching == SelectSeq(mod_json, Matches)
        any_available == matching # << >>
        filtered == SelectSeq(matching, IsRelease)
    IN  IF filtered = << >> THEN NotFound(any_available)
        ELSE LET latest_release_time == MaxDate(filtered)
                 IsLatest(x) == x.date_published = latest_release_time
             IN  Found(SelectSeq(filtered, IsLatest)[1])

select_build(mod_json, version, loader, enforce_release) ==
    LET Matches(x) == version \in x.game_versions /\ loader \in x.loaders
        IsRelease(x) == x.version_type = "release"
        matching == SelectSeq(mod_json, Matches)
        any_available == matching # << >>
        filtered == IF enforce_release THEN SelectSeq(matching, IsRelease)
                    ELSE matching
    IN  IF filtered = << >> THEN NotFound(any_available)
        ELSE LET latest_release_time == MaxDate(filtered)
                 IsLatest(x) == x.date_published = latest_release_time
             IN  Found(SelectSeq(filtered, IsLatest)[1])

(***************************************************************************)
(* The state of a run.                                                     *)
(***************************************************************************)
VARIABLES
    configs,           \* the config file: the sequence of installation entries
    api,               \* the hosting API: mod id -> the list of builds it last answered
    locked,            \* files the process can neither open for writing nor remove
    dir,               \* the mods folder: name of each present file -> its content
    ci,                \* the entry `for config in configs` is at (0 before the first)
    mi,                \* the mod `for mod in config["mods"]` is at (0 before the first)
    pc,                \* where the script is
    selected_version,  \* the entry's game version
    iterator_version,  \* the ladder's current version
    enforce_release,   \* the ladder's current stability mode
    oldversions,       \* download_modrinth_mod's list of files to remove
    primary_file,      \* download_modrinth_mod's selected file
    outcome,           \* how the last download_modrinth_mod call ended
    crash,             \* the uncaught exception that ended the script, "" if none
    warnings_count,
    errors_count,
    summary,           \* the totals of the final summary line, once printed
    attempts,          \* history: the calls of download_modrinth_mod for the mod at mi
    dir_before,        \* history: the mods folder when the last call began
    file_requests,     \* history: file download requests issued by the last call
    confirmed,         \* history: the last call reached "we have a good copy"
    arg,               \* the input of the function under test (function specs)
    ret                \* its result

vars == <<configs, api, locked, dir, ci, mi, pc, selected_version,
          iterator_version, enforce_release, oldversions, primary_file, outcome,
          crash, warnings_count, errors_count, summary, attempts, dir_before,
          file_requests, confirmed, arg, ret>>

\* the surroundings of a run: only the API request reads a new answer
env == <<configs, api, locked>>

\* the locals of download_modrinth_mod and the history of its last call
call == <<oldversions, primary_file, outcome, dir_before, file_requests, confirmed>>

\* line 293: the arguments are parsed from the fixed string "config.json server"
mode == "server"

\* line 298: install_loader = not parsed_args["noloader"]
install_loader == TRUE

(***************************************************************************)
(* Versions, file names, builds and configurations of the scenarios.       *)
(***************************************************************************)
\* highest patch number of the game versions of the scenarios
MaxPatch == 2
\* most builds in a hosting API answer of the ladder scenarios
MaxBuilds == 2
\* most files of the mods folder that are locked
MaxLocked == 1
\* most builds in a candidate list fed to the release selection alone
MaxCandidates == 3

\* "1.20"
Base == << <<"1">>, <<"2", "0">> >>

\* "1.20.<patch>"
Ver3(patch) == Base \o <<patch>>

\* the game versions builds are published for: 1.20, 1.20.1, ..
GameVersions == {Base} \cup {Ver3(str(n)) : n \in 1..MaxPatch}

\* the versions a config entry may ask for
StartVersions ==
    GameVersions
    \cup {Ver3(<<"0">>), Ver3(<<"0", "0">>),
          << <<"1">> >>,
          Ver3(<<"1">>) \o << <<"1">> >>,
          << <<"2", "4", "w", "1", "4", "a">> >>}

\* f"modX-{version}-{version_type}.jar"
JarName(version, version_type) == <<"modX", version, version_type>>

\* a file of the mods folder that belongs to no mod
Notes == <<"notes.txt">>

\* the bytes of the jar of a build of this type
JarContent(version_type) == IF version_type = "release" THEN 1 ELSE 3

\* a build with a single, unflagged file
SimpleBuild(version, loader, version_type, date_published) ==
    Build({version}, {loader}, version_type, date_published,
          <<File(FALSE, JarName(version, version_type), JarContent(version_type))>>)

\* a release for the other loader, f"modX-forge-{version}-release.jar"
ForgeBuild(version, date_published) ==
    Build({version}, {"forge"}, "release", date_published,
          <<File(FALSE, <<"modX-forge", version, "release">>, 1)>>)

\* the builds of the ladder scenarios: a release and a beta per game
\* version, and a release of the highest version for the other loader
LadderBuilds ==
    {SimpleBuild(v, "fabric", t, IF t = "release" THEN 1 ELSE 2) :
        v \in GameVersions, t \in {"release", "beta"}}
    \cup {ForgeBuild(Ver3(str(MaxPatch)), 3)}

RECURSIVE SeqsUpTo(_, _)
SeqsUpTo(S, n) ==
    IF n = 0 THEN {<< >>}
    ELSE LET shorter == SeqsUpTo(S, n - 1)
         IN  shorter \cup {Append(s, x) : s \in shorter, x \in S}

LadderApis == SeqsUpTo(LadderBuilds, MaxBuilds)

\* the version the install scenarios ask for, and the file they select
InstallVersion == Ver3(<<"2">>)

Target == JarName(InstallVersion, "release")

OldJar == JarName(Base, "release")

BetaJar == JarName(InstallVersion, "beta")

\* the hosting API's answer of the install scenarios: an old release, the
\* current release (its primary file flagged, after a sources jar), a newer
\* beta, and a forge build
InstallApi ==
    << SimpleBuild(Base, "fabric", "release", 1),
       Build({InstallVersion}, {"fabric"}, "release", 3,
             << File(FALSE, <<"modX-sources.jar">>, 3), File(TRUE, Target, 2) >>),
       SimpleBuild(InstallVersion, "fabric", "beta", 4),
       ForgeBuild(InstallVersion, 5) >>

\* the mods folders of the install scenarios: each file absent or present,
\* the target holding the build's bytes or foreign bytes of the same size
InstallDirs ==
    {d \in UNION {[S -> Contents] : S \in SUBSET {OldJar, Target, BetaJar, Notes}} :
        /\ OldJar \in DOMAIN d => d[OldJar] = 1
        /\ BetaJar \in DOMAIN d => d[BetaJar] = 3
        /\ Target \in DOMAIN d => d[Target] \in {2, Corrupt}
        /\ Notes \in DOMAIN d => d[Notes] = Corrupt}

Mod(id, site) == [id |-> id, site |-> site]

Config(enabled, type, with_loader, loader, version, mods) ==
    [enabled |-> enabled, type |-> type, install_loader |-> with_loader,
     loader |-> loader, version |-> version, mods |-> mods]

ModIds == {"m1", "m2"}

Scenario(cfgs, answers, d, l) ==
    [configs |-> cfgs, api |-> answers, dir |-> d, locked |-> l]

EmptyDir == [f \in {} |-> Empty]

\* one entry, one mod, every mods folder and every small set of locked files
InstallScenarios ==
    {Scenario(<<Config("true", "server", FALSE, "fabric", InstallVersion,
                       <<Mod("m1", "modrinth")>>)>>,
              [m \in ModIds |-> InstallApi], d, l) :
        d \in InstallDirs,
        l \in {x \in SUBSET {OldJar, Target, BetaJar} : Cardinality(x) <= MaxLocked}}

\* one entry, one mod, every start version and every small API answer
LadderScenarios ==
    {Scenario(<<Config("true", "server", FALSE, "fabric", v,
                       <<Mod("m1", "modrinth")>>)>>,
              [m \in ModIds |-> a], EmptyDir, {}) :
        v \in StartVersions, a \in LadderApis}

\* several entries (disabled, skipped by mode, with and without the loader
\* install) and several mods (one of an unsupported site)
RunConfigs(v, with_loader) ==
    << Config("true", "client", with_loader, "fabric", InstallVersion,
              <<Mod("m1", "modrinth"), Mod("m1", "curseforge"), Mod("m2", "modrinth")>>),
       Config("false", "server", TRUE, "fabric", v, <<Mod("m1", "modrinth")>>),
       Config("auto", "client", TRUE, "fabric", v, <<Mod("m1", "modrinth")>>),
       Config("auto", "server", with_loader, "forge", v, <<Mod("m2", "modrinth")>>),
       Config("true", "server", with_loader, "fabric", v, << >>) >>

RunScenarios ==
    {Scenario(RunConfigs(v, w),
              [m \in ModIds |-> IF m = "m1" THEN InstallApi
                                ELSE <<ForgeBuild(Base, 1)>>],
              d, {}) :
        v \in StartVersions, w \in BOOLEAN,
        d \in {x \in InstallDirs : DOMAIN x \subseteq {OldJar}}}

Scenarios == InstallScenarios \cup LadderScenarios \cup RunScenarios

(***************************************************************************)
(* log_print: a WARNING or an ERROR report raises its counter; what is     *)
(* printed or written to the log file is not modelled.  The argument is    *)
(* the sequence of the severities of the reports a step makes.             *)
(***************************************************************************)
CountOf(msg_type, msg_types) ==
    Cardinality({i \in 1..Len(msg_types) : msg_types[i] = msg_type})

log_print(msg_types) ==
    /\ warnings_count' = warnings_count + CountOf("WARNING", msg_types)
    /\ errors_count' = errors_count + CountOf("ERROR", msg_types)

(***************************************************************************)
(* Helpers of the steps.                                                   *)
(***************************************************************************)
\* the orders os.listdir may list the files of S in
RECURSIVE Orders(_)
Orders(S) ==
    IF S = {} THEN {<< >>}
    ELSE UNION {{<<x>> \o o : o \in Orders(S \ {x})} : x \in S}

\* variant with a seeded fault: line 245 is missing, the list is left as it is
ListRemove_skipped(list, x) == list

\* list.remove(x): the list without the first occurrence of x
RECURSIVE ListRemove(_, _)
ListRemove(list, x) ==
    IF list = << >> THEN << >>
    ELSE IF Head(list) = x THEN Tail(list)
    ELSE <<Head(list)>> \o ListRemove(Tail(list), x)

\* os.remove(f) / the file f written with content c
WithoutFile(d, f) == [x \in DOMAIN d \ {f} |-> d[x]]

WithFile(d, f, c) == [x \in DOMAIN d \cup {f} |-> IF x = f THEN c ELSE d[x]]

\* os.path.isfile(file_path) and matches_hashes(file_path, ...)
Verified(d, file) ==
    /\ file.filename \in DOMAIN d
    /\ matches_hashes(d[file.filename], file.sha1, file.sha512, file.size)

Ended(kind, flag) == [kind |-> kind, arg |-> flag]

Attempt(version, release_only, mod_json, result, flag) ==
    [version |-> version, enforce_release |-> release_only,
     mod_json |-> mod_json, result |-> result, any_available |-> flag]

\* the list without its i-th element
RemoveAt(list, i) == SubSeq(list, 1, i - 1) \o SubSeq(list, i + 1, Len(list))

\* what the hosting API may answer next, having last answered mod_json: the
\* same builds, or the same but one that has been withdrawn since
AnswersAfter(mod_json) ==
    {mod_json} \cup {RemoveAt(mod_json, i) : i \in 1..Len(mod_json)}

CurrentConfig == configs[ci]

CurrentMod == configs[ci].mods[mi]

\* what the server may send for a file: its bytes, bytes of the same size
\* that are not the file's, a truncated body, or nothing
Responses == {1, 2, 3, Corrupt, Empty}

(***************************************************************************)
(* The config loop (lines 316-367) and the loader install (371-410).      *)
(***************************************************************************)
\* for config in configs: skip a disabled entry or one of the other mode,
\* else take the entry's version; the loop's end leads to the summary
ForConfig ==
    /\ pc = "configs"
    /\ IF ci < Len(configs)
       THEN LET config == configs[ci + 1]
                skipped == \/ config.enabled = "false"
                           \/ config.enabled = "auto" /\ config.type # mode
            IN  /\ ci' = ci + 1
                /\ pc' = IF skipped THEN "configs" ELSE "loader"
                /\ selected_version' =
                       IF skipped THEN selected_version ELSE config.version
       ELSE /\ pc' = "summary"
            /\ UNCHANGED <<ci, selected_version>>
    /\ UNCHANGED <<env, dir, mi, iterator_version, enforce_release, call, crash,
                   warnings_count, errors_count, summary, attempts, arg, ret>>

\* the loader install: an HTTP or OS error is reported as an ERROR, an
\* unsupported loader too; for a server entry download_server_jar is called
\* without its name argument, a TypeError no except clause catches
InstallLoader ==
    /\ pc = "loader"
    /\ \E fetched \in BOOLEAN :
         LET wanted == install_loader /\ CurrentConfig.install_loader
             fabric == CurrentConfig.loader = "fabric"
             typeError == wanted /\ fabric /\ fetched
                          /\ CurrentConfig.type = "server"
         IN  /\ log_print(IF wanted /\ (~fabric \/ ~fetched)
                          THEN <<"ERROR">> ELSE << >>)
             /\ crash' = IF typeError THEN "TypeError" ELSE crash
             /\ pc' = IF typeError THEN "crashed" ELSE "mods"
    /\ mi' = 0
    /\ UNCHANGED <<env, dir, ci, selected_version, iterator_version,
                   enforce_release, call, summary, attempts, arg, ret>>

(***************************************************************************)
(* The mod loop (lines 415-427, 464-466).                                  *)
(***************************************************************************)
ForMod ==
    /\ pc = "mods"
    /\ IF mi < Len(CurrentConfig.mods)
       THEN LET mod == CurrentConfig.mods[mi + 1]
            IN  /\ mi' = mi + 1
                /\ IF mod.site = "modrinth"
                   THEN /\ iterator_version' = selected_version
                        /\ enforce_release' = TRUE
                        /\ attempts' = << >>
                        /\ pc' = "call"
                        /\ log_print(<< >>)
                   ELSE /\ log_print(<<"ERROR">>)
                        /\ attempts' = << >>
                        /\ pc' = "mods"
                        /\ UNCHANGED <<iterator_version, enforce_release>>
       ELSE /\ pc' = "configs"
            /\ attempts' = << >>
            /\ log_print(<< >>)
            /\ UNCHANGED <<mi, iterator_version, enforce_release>>
    /\ UNCHANGED <<env, dir, ci, selected_version, call, crash, summary, arg, ret>>

(***************************************************************************)
(* download_modrinth_mod, lines 190-235: the API request, the listing of   *)
(* the mods folder and the selection.                                      *)
(***************************************************************************)
Lookup ==
    /\ pc = "call"
    /\ dir_before' = dir
    /\ file_requests' = 0
    /\ confirmed' = FALSE
    /\ \E api_ok \in BOOLEAN :
         IF ~api_ok
         THEN /\ outcome' = Ended("HTTPError", FALSE)
              /\ attempts' = Append(attempts,
                     Attempt(iterator_version, enforce_release, << >>,
                             "HTTPError", FALSE))
              /\ pc' = "except"
              /\ oldversions' = << >>
              /\ primary_file' = NoFile
              /\ UNCHANGED api
         ELSE \E mod_json \in AnswersAfter(api[CurrentMod.id]) :
              LET present == DOMAIN dir \cap filenames_of(mod_json)
                  sel == select_build(mod_json, iterator_version,
                                      CurrentConfig.loader, enforce_release)
              IN  \E listing \in Orders(present) :
                  /\ api' = [api EXCEPT ![CurrentMod.id] = mod_json]
                  /\ oldversions' = listing
                  /\ IF sel.kind = "ValueError"
                     THEN /\ outcome' = Ended("ValueError", sel.any_available)
                          /\ attempts' = Append(attempts,
                                 Attempt(iterator_version, enforce_release,
                                         mod_json, "miss", sel.any_available))
                          /\ pc' = "except"
                          /\ primary_file' = NoFile
                     ELSE /\ outcome' = Ended("running", FALSE)
                          /\ attempts' = Append(attempts,
                                 Attempt(iterator_version, enforce_release,
                                         mod_json, "hit", TRUE))
                          /\ primary_file' = primary_file_of(sel.build)
                          /\ pc' = "check"
    /\ UNCHANGED <<configs, locked, dir, ci, mi, selected_version,
                   iterator_version, enforce_release, crash, warnings_count,
                   errors_count, summary, arg, ret>>

(***************************************************************************)
(* Lines 237-247: skip when the file is present and verified; else warn    *)
(* about a file of that name, take it off oldversions, and open the file   *)
(* for writing, which creates or truncates it.                             *)
(***************************************************************************)
CheckExisting ==
    /\ pc = "check"
    /\ LET name == primary_file.filename
           exists == name \in DOMAIN dir
       IN  IF Verified(dir, primary_file)
           THEN /\ confirmed' = TRUE
                /\ pc' = "cleanup"
                /\ log_print(<< >>)
                /\ UNCHANGED <<dir, oldversions, outcome>>
           ELSE /\ log_print(IF exists THEN <<"WARNING">> ELSE << >>)
                /\ oldversions' = IF exists THEN ListRemove(oldversions, name)
                                  ELSE oldversions
                /\ IF name \in locked
                   THEN /\ outcome' = Ended("OSError", FALSE)
                        /\ pc' = "except"
                        /\ UNCHANGED dir
                   ELSE /\ dir' = WithFile(dir, name, Empty)
                        /\ pc' = "get"
                        /\ UNCHANGED outcome
                /\ UNCHANGED confirmed
    /\ UNCHANGED <<env, ci, mi, selected_version, iterator_version, enforce_release,
                   primary_file, dir_before, file_requests, crash, summary,
                   attempts, arg, ret>>

(***************************************************************************)
(* Lines 248-251: the file request; an HTTP error leaves the with block    *)
(* with the file as open() made it, else the body is written.              *)
(***************************************************************************)
Download ==
    /\ pc = "get"
    /\ file_requests' = file_requests + 1
    /\ \E status_ok \in BOOLEAN :
         IF status_ok
         THEN \E content \in Responses :
                /\ dir' = WithFile(dir, primary_file.filename, content)
                /\ pc' = "verify"
                /\ UNCHANGED outcome
         ELSE /\ outcome' = Ended("HTTPError", FALSE)
              /\ pc' = "except"
              /\ UNCHANGED dir
    /\ UNCHANGED <<env, ci, mi, selected_version, iterator_version, enforce_release,
                   oldversions, primary_file, dir_before, confirmed, crash,
                   warnings_count, errors_count, summary, attempts, arg, ret>>

\* variant with a seeded fault: line 258 is missing, the file that failed
\* verification stays on disk
VerifyDownload_keeps_file ==
    /\ pc = "verify"
    /\ IF Verified(dir, primary_file)
       THEN /\ confirmed' = TRUE
            /\ pc' = "cleanup"
            /\ UNCHANGED <<dir, outcome>>
       ELSE /\ outcome' = Ended("DownloadError", FALSE)
            /\ pc' = "except"
            /\ UNCHANGED <<dir, confirmed>>
    /\ UNCHANGED <<env, ci, mi, selected_version, iterator_version, enforce_release,
                   oldversions, primary_file, dir_before, file_requests, crash,
                   warnings_count, errors_count, summary, attempts, arg, ret>>

(***************************************************************************)
(* Lines 253-259: the downloaded file is verified; a file that fails is    *)
(* removed and DownloadError raised.                                       *)
(***************************************************************************)
VerifyDownload ==
    /\ pc = "verify"
    /\ IF Verified(dir, primary_file)
       THEN /\ confirmed' = TRUE
            /\ pc' = "cleanup"
            /\ UNCHANGED <<dir, outcome>>
       ELSE /\ dir' = WithoutFile(dir, primary_file.filename)
            /\ outcome' = Ended("DownloadError", FALSE)
            /\ pc' = "except"
            /\ UNCHANGED confirmed
    /\ UNCHANGED <<env, ci, mi, selected_version, iterator_version, enforce_release,
                   oldversions, primary_file, dir_before, file_requests, crash,
                   warnings_count, errors_count, summary, attempts, arg, ret>>

(***************************************************************************)
(* Lines 261-265: the files of oldversions are removed one by one; a       *)
(* removal that fails raises OSError out of the loop.  With the list       *)
(* exhausted the call returns and the ladder's loop breaks (line 431).     *)
(***************************************************************************)
RemoveOld ==
    /\ pc = "cleanup"
    /\ oldversions # << >>
    /\ LET file == Head(oldversions)
       IN  IF file \in locked
           THEN /\ outcome' = Ended("OSError", FALSE)
                /\ pc' = "except"
                /\ UNCHANGED <<dir, oldversions>>
           ELSE /\ dir' = WithoutFile(dir, file)
                /\ oldversions' = Tail(oldversions)
                /\ UNCHANGED <<pc, outcome>>
    /\ UNCHANGED <<env, ci, mi, selected_version, iterator_version, enforce_release,
                   primary_file, dir_before, file_requests, confirmed, crash,
                   warnings_count, errors_count, summary, attempts, arg, ret>>

Return ==
    /\ pc = "cleanup"
    /\ oldversions = << >>
    /\ outcome' = Ended("returned", FALSE)
    /\ pc' = "mods"
    /\ UNCHANGED <<env, dir, ci, mi, selected_version, iterator_version,
                   enforce_release, oldversions, primary_file, dir_before,
                   file_requests, confirmed, crash, warnings_count, errors_count,
                   summary, attempts, arg, ret>>

(***************************************************************************)
(* The fallback ladder's except clauses (lines 432-463).                   *)
(***************************************************************************)
\* variant with a seeded fault: line 447 is missing, a downstep leaves
\* enforce_release as it is
ExceptValueError_keeps_mode ==
    /\ pc = "except"
    /\ outcome.kind = "ValueError"
    /\ IF enforce_release /\ outcome.arg
       THEN /\ log_print(<<"WARNING">>)
            /\ enforce_release' = FALSE
            /\ pc' = "call"
            /\ UNCHANGED <<iterator_version, crash>>
       ELSE LET stepped == downstep_version(iterator_version)
            IN  /\ UNCHANGED enforce_release
                /\ log_print(IF stepped.kind = "ValueError"
                             THEN <<"WARNING", "ERROR">> ELSE <<"WARNING">>)
                /\ iterator_version' =
                       IF stepped.kind \in {"return", "None"} THEN stepped.value
                       ELSE iterator_version
                /\ crash' = IF stepped.kind = "AttributeError"
                            THEN "AttributeError" ELSE crash
                /\ pc' = CASE stepped.kind = "ValueError" -> "mods"
                           [] stepped.kind = "AttributeError" -> "crashed"
                           [] OTHER -> "call"
    /\ UNCHANGED <<env, dir, ci, mi, selected_version, call, summary, attempts,
                   arg, ret>>

\* except ValueError: the build was not found.  Retry the same version with
\* prereleases when the flag says some build exists for it; else step the
\* version down and retry with releases only.  A ValueError of
\* downstep_version ends the mod with an ERROR; its None becomes the next
\* version; the AttributeError of downstep_version(None) is caught nowhere.
ExceptValueError ==
    /\ pc = "except"
    /\ outcome.kind = "ValueError"
    /\ IF enforce_release /\ outcome.arg
       THEN /\ log_print(<<"WARNING">>)
            /\ enforce_release' = FALSE
            /\ pc' = "call"
            /\ UNCHANGED <<iterator_version, crash>>
       ELSE LET stepped == downstep_version(iterator_version)
            IN  /\ enforce_release' = TRUE
                /\ log_print(IF stepped.kind = "ValueError"
                             THEN <<"WARNING", "ERROR">> ELSE <<"WARNING">>)
                /\ iterator_version' =
                       IF stepped.kind \in {"return", "None"} THEN stepped.value
                       ELSE iterator_version
                /\ crash' = IF stepped.kind = "AttributeError"
                            THEN "AttributeError" ELSE crash
                /\ pc' = CASE stepped.kind = "ValueError" -> "mods"
                           [] stepped.kind = "AttributeError" -> "crashed"
                           [] OTHER -> "call"
    /\ UNCHANGED <<env, dir, ci, mi, selected_version, call, summary, attempts,
                   arg, ret>>

\* except (requests.HTTPError, DownloadError): an ERROR, and the mod is given up
ExceptDownloadFailure ==
    /\ pc = "except"
    /\ outcome.kind \in {"HTTPError", "DownloadError"}
    /\ log_print(<<"ERROR">>)
    /\ pc' = "mods"
    /\ UNCHANGED <<env, dir, ci, mi, selected_version, iterator_version,
                   enforce_release, call, crash, summary, attempts, arg, ret>>

\* except OSError: a WARNING, and the mod is left
ExceptOSError ==
    /\ pc = "except"
    /\ outcome.kind = "OSError"
    /\ log_print(<<"WARNING">>)
    /\ pc' = "mods"
    /\ UNCHANGED <<env, dir, ci, mi, selected_version, iterator_version,
                   enforce_release, call, crash, summary, attempts, arg, ret>>

(***************************************************************************)
(* The start of the script (lines 305-312) and its final summary           *)
(* (lines 470-476).                                                        *)
(***************************************************************************)
NoSummary == [printed |-> FALSE, errors |-> 0, warnings |-> 0]

\* no version argument is given, so the latest release is asked of the
\* version manifest; an HTTP error there is reported as an ERROR
Start ==
    /\ pc = "start"
    /\ \E manifest_ok \in BOOLEAN :
         log_print(IF manifest_ok THEN << >> ELSE <<"ERROR">>)
    /\ pc' = "configs"
    /\ UNCHANGED <<env, dir, ci, mi, selected_version, iterator_version,
                   enforce_release, call, crash, summary, attempts, arg, ret>>

Summary ==
    /\ pc = "summary"
    /\ summary' = [printed |-> TRUE, errors |-> errors_count,
                   warnings |-> warnings_count]
    /\ pc' = "done"
    /\ UNCHANGED <<env, dir, ci, mi, selected_version, iterator_version,
                   enforce_release, call, crash, warnings_count, errors_count,
                   attempts, arg, ret>>

(***************************************************************************)
(* The specification of a run.                                             *)
(***************************************************************************)
\* the script's variables before its first statement, in folder d
Idle(d) ==
    /\ dir = d
    /\ ci = 0
    /\ mi = 0
    /\ selected_version = None
    /\ iterator_version = None
    /\ enforce_release = TRUE
    /\ oldversions = << >>
    /\ primary_file = NoFile
    /\ outcome = Ended("none", FALSE)
    /\ crash = ""
    /\ warnings_count = 0
    /\ errors_count = 0
    /\ summary = NoSummary
    /\ attempts = << >>
    /\ dir_before = d
    /\ file_requests = 0
    /\ confirmed = FALSE

Init ==
    \E s \in Scenarios :
        /\ configs = s.configs
        /\ api = s.api
        /\ locked = s.locked
        /\ Idle(s.dir)
        /\ pc = "start"
        /\ arg = << >>
        /\ ret = << >>

Next ==
    \/ Start
    \/ ForConfig
    \/ InstallLoader
    \/ ForMod
    \/ Lookup
    \/ CheckExisting
    \/ Download
    \/ VerifyDownload
    \/ RemoveOld
    \/ Return
    \/ ExceptValueError
    \/ ExceptDownloadFailure
    \/ ExceptOSError
    \/ Summary

Spec == Init /\ [][Next]_vars

(***************************************************************************)
(* downstep_version alone: every version of the bounded set is fed to it.  *)
(***************************************************************************)
PatchChars == {"0", "1", "2", "w"}

\* the strings a component may be: any short string at the patch position,
\* a number or a word elsewhere
ComponentsAt(i) ==
    IF i = 3 THEN SeqsUpTo(PatchChars, MaxDigits)
    ELSE IF i < 3 THEN {<<"1">>, <<"2", "0">>, <<"w">>}
    ELSE {<<"0">>, <<"1">>}

RECURSIVE VersionsOfLen(_)
VersionsOfLen(k) ==
    IF k = 0 THEN {<< >>}
    ELSE {Append(v, c) : v \in VersionsOfLen(k - 1), c \in ComponentsAt(k)}

DownstepInputs == UNION {VersionsOfLen(k) : k \in 1..MaxComponents}

NotCalled == [kind |-> "not called", value |-> None]

InitDownstep ==
    /\ configs = << >>
    /\ api = << >>
    /\ locked = {}
    /\ Idle(EmptyDir)
    /\ pc = "downstep_version"
    /\ arg \in DownstepInputs
    /\ ret = NotCalled

CallDownstep ==
    /\ pc = "downstep_version"
    /\ ret' = downstep_version(arg)
    /\ pc' = "result"
    /\ UNCHANGED <<env, dir, ci, mi, selected_version, iterator_version,
                   enforce_release, call, crash, warnings_count, errors_count,
                   summary, attempts, arg>>

SpecDownstep == InitDownstep /\ [][CallDownstep]_vars

(***************************************************************************)
(* The release selection alone: every short list of candidate builds, in   *)
(* both stability modes.                                                   *)
(***************************************************************************)
SelectBuilds ==
    {Build({v}, {l}, t, d, <<File(FALSE, JarName(v, t), JarContent(t))>>) :
        v \in {Base, InstallVersion}, l \in {"fabric", "forge"},
        t \in {"release", "beta"}, d \in {1, 2}}

SelectInput(mod_json, version, loader, release_only) ==
    [mod_json |-> mod_json, version |-> version, loader |-> loader,
     enforce_release |-> release_only]

InitSelect ==
    /\ configs = << >>
    /\ api = << >>
    /\ locked = {}
    /\ Idle(EmptyDir)
    /\ pc = "select_build"
    /\ arg \in {SelectInput(c, InstallVersion, "fabric", r) :
                   c \in SeqsUpTo(SelectBuilds, MaxCandidates), r \in BOOLEAN}
    /\ ret = NotFound(FALSE)

CallSelect ==
    /\ pc = "select_build"
    /\ ret' = select_build(arg.mod_json, arg.version, arg.loader, arg.enforce_release)
    /\ pc' = "result"
    /\ UNCHANGED <<env, dir, ci, mi, selected_version, iterator_version,
                   enforce_release, call, crash, warnings_count, errors_count,
                   summary, attempts, arg>>

SpecSelect == InitSelect /\ [][CallSelect]_vars

(***************************************************************************)
(* Properties.                                                             *)
(***************************************************************************)
AllNumeric(version) == \A i \in 1..Len(version) : isnumeric(version[i])

\* C9: downstep agrees with the reference on every input: a numeric a.b.c
\* with c >= 2 gives a.b.(c-1), c = 1 gives the two-component a.b, and the
\* call fails with an error when the patch is zero, when the version has two
\* components and when a component is not numeric; nothing else changes.
C9_DownstepAgreesWithReference ==
    pc = "result" =>
        /\ (AllNumeric(arg) /\ Len(arg) = 3 /\ int(arg[3]) >= 2
               => ret = Returned(<<arg[1], arg[2], str(int(arg[3]) - 1)>>))
        /\ (AllNumeric(arg) /\ Len(arg) = 3 /\ int(arg[3]) = 1
               => ret = Returned(<<arg[1], arg[2]>>))
        /\ (AllNumeric(arg) /\ Len(arg) = 3 /\ int(arg[3]) = 0
               => ret.kind = "ValueError")
        /\ (Len(arg) = 2 => ret.kind = "ValueError")
        /\ (~AllNumeric(arg) => ret.kind = "ValueError")
        /\ dir = dir_before /\ warnings_count = 0 /\ errors_count = 0

\* C13: for every purely numeric version, whatever its number of
\* components, downstep returns a well-formed version (not None, every
\* component numeric) or fails with an error.
C13_DownstepReturnsVersionOrFails ==
    (pc = "result" /\ AllNumeric(arg)) =>
        \/ ret.kind = "ValueError"
        \/ /\ ret.kind = "return"
           /\ ret.value # None
           /\ AllNumeric(ret.value)

\* the candidates of the input that match its game version and loader
MatchingCandidates ==
    {i \in 1..Len(arg.mod_json) :
        /\ arg.version \in arg.mod_json[i].game_versions
        /\ arg.loader \in arg.mod_json[i].loaders}

\* those of them that survive the stability filter
SurvivingCandidates ==
    {i \in MatchingCandidates :
        arg.enforce_release => arg.mod_json[i].version_type = "release"}

\* C8: the release selection agrees with the reference: it fails exactly
\* when no candidate matches version, loader and (in releaseOnly mode) the
\* release classification; the flag of a failure says whether some
\* candidate matched version and loader before the stability filter; a
\* success is a surviving candidate of maximum publish time.
C8_SelectAgreesWithReference ==
    pc = "result" =>
        /\ ret.kind = "ValueError" <=> SurvivingCandidates = {}
        /\ ret.kind = "ValueError" => ret.any_available = (MatchingCandidates # {})
        /\ ret.kind # "ValueError" =>
               /\ ret.kind = "found"
               /\ \E i \in SurvivingCandidates :
                      /\ ret.build = arg.mod_json[i]
                      /\ \A j \in SurvivingCandidates :
                             arg.mod_json[j].date_published
                                 <= arg.mod_json[i].date_published

\* C8 witness: a releaseOnly selection over three matching candidates that
\* picks the newer of two releases and passes over a beta
C8_Witness ==
    /\ pc = "result"
    /\ arg.enforce_release
    /\ Cardinality(MatchingCandidates) = 3
    /\ Cardinality(SurvivingCandidates) = 2
    /\ ret.kind = "found"
    /\ ret.build = arg.mod_json[3]
    /\ arg.mod_json[1].date_published < ret.build.date_published

\* C8 witness of the failure case: only a beta matches, the flag is true
C8_FailureReached ==
    /\ pc = "result"
    /\ ret.kind = "ValueError"
    /\ ret.any_available
    /\ Len(arg.mod_json) = 3

(***************************************************************************)
(* Properties of the installer.  While attempts is not empty the mod at mi *)
(* is the one download_modrinth_mod was last called for, and dir_before,   *)
(* primary_file, file_requests, confirmed and outcome describe that call.  *)
(***************************************************************************)
\* the API's answer to the last call
LastAnswer == attempts[Len(attempts)].mod_json

\* the primary file names of all builds of the mod, as the last call listed them
CandidateNames == filenames_of(LastAnswer)

\* the old-version files of the mod in folder d: present files with a
\* candidate name other than the selected build's
OldVersionFiles(d) ==
    {f \in DOMAIN d : f \in CandidateNames /\ f # primary_file.filename}

\* the last call has ended, by return or by an exception
CallEnded ==
    /\ attempts # << >>
    /\ outcome.kind \in {"returned", "ValueError", "HTTPError", "DownloadError",
                         "OSError"}

\* the files the last call removed from the folder
RemovedFiles == DOMAIN dir_before \ DOMAIN dir

\* the files the last call left as they were
Untouched(files) ==
    \A f \in files : f \in DOMAIN dir /\ dir[f] = dir_before[f]

\* C1: an old-version file of the mod is deleted only at a moment when the
\* selected build's file is on disk and passes hash verification.
C1_DeleteOnlyWhileVerifiedOnDisk ==
    [][\A f \in DOMAIN dir \ DOMAIN dir' :
          (attempts # << >> /\ f \in OldVersionFiles(dir))
              => Verified(dir, primary_file)]_vars

\* C2: when the selected build's file is already at the target path and
\* verified, the call ends skipped: it returns, has issued no file request
\* and the folder holds exactly the files it held before.
C2_SkipLeavesFolderUntouched ==
    (CallEnded /\ primary_file # NoFile /\ Verified(dir_before, primary_file))
        => /\ outcome.kind = "returned"
           /\ file_requests = 0
           /\ dir = dir_before

\* C6: when the freshly downloaded file fails verification the call raises
\* DownloadError, no file remains at the target path, and every old-version
\* file of the mod that was present before the call is still there.
C6_CorruptDownloadRaisesAndKeepsOldFiles ==
    [][(pc = "verify" /\ ~Verified(dir, primary_file))
          => /\ outcome'.kind = "DownloadError"
             /\ primary_file.filename \notin DOMAIN dir'
             /\ \A f \in OldVersionFiles(dir_before) :
                    f \in DOMAIN dir' /\ dir'[f] = dir_before[f]]_vars

\* C6 witness: DownloadError has been raised by a call that began with two
\* old-version files and a foreign file at the target path
C6_Witness ==
    /\ pc = "except"
    /\ outcome.kind = "DownloadError"
    /\ OldVersionFiles(dir_before) = {OldJar, BetaJar}
    /\ Target \in DOMAIN dir_before
    /\ Target \notin DOMAIN dir

\* the last call downloaded the selected file and verified it
InstalledByDownload == CallEnded /\ confirmed /\ file_requests = 1

C7_CleanupFailureReached ==
    /\ InstalledByDownload
    /\ outcome.kind = "OSError"
    /\ Cardinality(OldVersionFiles(dir_before)) = 2

\* C14: when a call has ended by returning, by an HTTP error or by
\* DownloadError after selecting a build, a file at the selected build's
\* target path passes hash verification: nothing empty, partial or
\* unverified is left there.
C14_NoUnverifiedFileAtTarget ==
    (/\ CallEnded
     /\ outcome.kind \in {"returned", "HTTPError", "DownloadError"}
     /\ primary_file # NoFile
     /\ primary_file.filename \in DOMAIN dir)
        => Verified(dir, primary_file)

\* C11: when the removal of an old-version file fails after the new file
\* was downloaded and verified, the new file stays on disk verified, the
\* failure is counted as one warning and no error, and the removal of the
\* other old-version files is still attempted: every old-version file that
\* can be removed is gone.
C11_CleanupBestEffortPerFile ==
    [][(pc = "except" /\ outcome.kind = "OSError" /\ InstalledByDownload)
          => /\ Verified(dir', primary_file)
             /\ warnings_count' = warnings_count + 1
             /\ errors_count' = errors_count
             /\ \A f \in OldVersionFiles(dir_before) \ locked :
                    f \notin DOMAIN dir']_vars

(***************************************************************************)
(* Properties of the fallback ladder.  An attempt is a call of             *)
(* download_modrinth_mod; its result is "hit", "miss" (the ValueError of   *)
(* the selection) or "HTTPError" (the API request failed).                 *)
(***************************************************************************)
\* the (version, releaseOnly) pairs of the attempts made for the mod at mi
AttemptPairs == [i \in 1..Len(attempts) |->
                    <<attempts[i].version, attempts[i].enforce_release>>]

AttemptResults == [i \in 1..Len(attempts) |-> attempts[i].result]

IsPrefix(s, t) == Len(s) <= Len(t) /\ \A i \in 1..Len(s) : s[i] = t[i]

\* the ladder of the mod at mi is over, and every API request was answered
LadderOver ==
    /\ attempts # << >>
    /\ pc = "mods"
    /\ \A i \in 1..Len(attempts) : attempts[i].result # "HTTPError"

\* the version k patches below the numeric three-component version v
PatchBelow(v, k) ==
    IF int(v[3]) = k THEN <<v[1], v[2]>>
    ELSE <<v[1], v[2], str(int(v[3]) - k)>>

\* the builds of an answer that support the entry's loader
LoaderBuilds(mod_json) ==
    {mod_json[i] : i \in {j \in 1..Len(mod_json) :
                              CurrentConfig.loader \in mod_json[j].loaders}}

\* the attempts the API answered
Answered == {i \in 1..Len(attempts) : attempts[i].result # "HTTPError"}

\* the case of C3: the start version V is numeric with patch >= 2 and, in
\* every answer of the API, the builds for the loader are releases for V-2
\* alone
OnlyReleaseTwoBelow ==
    /\ attempts # << >>
    /\ Len(selected_version) = 3
    /\ AllNumeric(selected_version)
    /\ selected_version[3] = str(int(selected_version[3]))
    /\ int(selected_version[3]) >= 2
    /\ \A i \in Answered :
           /\ LoaderBuilds(attempts[i].mod_json) # {}
           /\ \A b \in LoaderBuilds(attempts[i].mod_json) :
                  /\ b.version_type = "release"
                  /\ b.game_versions = {PatchBelow(selected_version, 2)}

\* C3, as claimed: with only a release at V-2 the attempts are exactly
\* (V,release), (V,prerelease), (V-1,release), (V-1,prerelease),
\* (V-2,release), and the last one matches.
C3_FiveAttemptLadder ==
    (OnlyReleaseTwoBelow /\ LadderOver) =>
        /\ AttemptPairs = << <<selected_version, TRUE>>,
                             <<selected_version, FALSE>>,
                             <<PatchBelow(selected_version, 1), TRUE>>,
                             <<PatchBelow(selected_version, 1), FALSE>>,
                             <<PatchBelow(selected_version, 2), TRUE>> >>
        /\ attempts[Len(attempts)].result = "hit"

\* the ladder the code walks in the case of C3
ReleaseOnlyLadder ==
    << <<selected_version, TRUE>>,
       <<PatchBelow(selected_version, 1), TRUE>>,
       <<PatchBelow(selected_version, 2), TRUE>> >>

\* C3, amended: with only a release at V-2 the attempts are exactly
\* (V,release), (V-1,release), (V-2,release): a releaseOnly miss whose flag
\* is false steps straight down.  The last one matches, its build's primary
\* file is the one the installer goes on with, and no prerelease attempt is
\* made.  (While the ladder runs, and when an API request fails, the
\* attempts are a prefix of that sequence.)
C3_ThreeAttemptLadder ==
    OnlyReleaseTwoBelow =>
        /\ IsPrefix(AttemptPairs, ReleaseOnlyLadder)
        /\ LadderOver =>
               /\ AttemptPairs = ReleaseOnlyLadder
               /\ AttemptResults = <<"miss", "miss", "hit">>
               /\ \E b \in LoaderBuilds(LastAnswer) :
                      primary_file = primary_file_of(b)

\* C3 witness: such a ladder is over after its third attempt matched and
\* the call returned
C3_Witness ==
    /\ OnlyReleaseTwoBelow
    /\ LadderOver
    /\ Len(attempts) = 3
    /\ attempts[3].result = "hit"
    /\ outcome.kind = "returned"

\* C4: a prerelease attempt is the immediate successor of a failed
\* releaseOnly attempt at the same version whose flag said some build
\* exists; the first attempt and every attempt that follows a change of
\* version are releaseOnly.
C4_PrereleaseOnlyAfterFlaggedMiss ==
    \A i \in 1..Len(attempts) :
        /\ ~attempts[i].enforce_release =>
               /\ i > 1
               /\ attempts[i - 1].enforce_release
               /\ attempts[i - 1].result = "miss"
               /\ attempts[i - 1].any_available
               /\ attempts[i - 1].version = attempts[i].version
        /\ (i > 1 /\ attempts[i - 1].version # attempts[i].version)
               => attempts[i].enforce_release

\* C4 witness: a prerelease attempt has missed (the build was withdrawn
\* in between) and the attempt after the downstep has been made, with
\* releases only
C4_Witness ==
    /\ Len(attempts) >= 3
    /\ ~attempts[2].enforce_release
    /\ attempts[2].result = "miss"
    /\ attempts[3].version # attempts[2].version
    /\ attempts[3].enforce_release

\* the case of C5: one entry with one mod, asked for 1.20.2 into an empty
\* mods folder, and every answer of the API holds exactly a release for 1.20
\* and a prerelease for 1.20.2, both for the entry's loader
OneReleaseBelowOnePrerelease ==
    /\ attempts # << >>
    /\ Len(configs) = 1
    /\ Len(CurrentConfig.mods) = 1
    /\ selected_version = Ver3(<<"2">>)
    /\ dir_before = EmptyDir
    /\ \A i \in Answered :
           LET mod_json == attempts[i].mod_json
           IN  /\ Len(mod_json) = 2
               /\ LoaderBuilds(mod_json) = {mod_json[1], mod_json[2]}
               /\ \E r \in 1..2 :
                      /\ mod_json[r].version_type = "release"
                      /\ mod_json[r].game_versions = {Base}
                      /\ mod_json[3 - r].version_type # "release"
                      /\ mod_json[3 - r].game_versions = {Ver3(<<"2">>)}

\* the build of the last answer of this type
BuildOfType(version_type) ==
    CHOOSE b \in LoaderBuilds(LastAnswer) :
        (b.version_type = "release") <=> (version_type = "release")

\* C5, as claimed: the attempts are (1.20.2,release), (1.20.2,prerelease),
\* (1.20.1,release), (1.20.1,prerelease), (1.20,release), all missing but
\* the last, and the file installed is the primary file of the 1.20 release.
C5_FiveAttemptsInstallRelease ==
    (OneReleaseBelowOnePrerelease /\ LadderOver) =>
        /\ AttemptPairs = << <<Ver3(<<"2">>), TRUE>>, <<Ver3(<<"2">>), FALSE>>,
                             <<Ver3(<<"1">>), TRUE>>, <<Ver3(<<"1">>), FALSE>>,
                             <<Base, TRUE>> >>
        /\ AttemptResults = <<"miss", "miss", "miss", "miss", "hit">>
        /\ primary_file = primary_file_of(BuildOfType("release"))

\* C5, amended: the attempts are (1.20.2,release), a miss whose flag is
\* true, and (1.20.2,prerelease), a hit: the ladder stops there, the file
\* the installer goes on with is the primary file of the 1.20.2 prerelease
\* build, and when the call returns that file is in the folder, verified.
\* (While the ladder runs, and when an API request fails, the attempts are
\* a prefix of that sequence.)
C5_TwoAttemptsInstallPrerelease ==
    OneReleaseBelowOnePrerelease =>
        /\ IsPrefix(AttemptPairs, << <<Ver3(<<"2">>), TRUE>>,
                                     <<Ver3(<<"2">>), FALSE>> >>)
        /\ LadderOver =>
               /\ Len(attempts) = 2
               /\ AttemptResults = <<"miss", "hit">>
               /\ attempts[1].any_available
               /\ primary_file = primary_file_of(BuildOfType("beta"))
               /\ outcome.kind = "returned" => Verified(dir, primary_file)

\* C5 witness: in that case the ladder is over and the call has returned
\* with the prerelease build's file in the folder
C5_Witness ==
    /\ OneReleaseBelowOnePrerelease
    /\ LadderOver
    /\ outcome.kind = "returned"
    /\ JarName(Ver3(<<"2">>), "beta") \in DOMAIN dir

\* the ladder of the mod at mi started at a numeric version of two or
\* three components
NumericStart ==
    /\ attempts # << >>
    /\ Len(selected_version) \in {2, 3}
    /\ AllNumeric(selected_version)

\* the patch number c of a.b.c; a.b counts as patch 0
Patch(version) == IF Len(version) = 3 THEN int(version[3]) ELSE 0

\* the ladder of the mod at mi has ended: the loop was left by a break
LadderEnded == attempts # << >> /\ pc = "mods"

C10_RunReachesSummaryWithTotals ==
    /\ pc # "crashed"
    /\ summary.printed =>
           /\ summary.errors = errors_count
           /\ summary.warnings = warnings_count

====
